---- MODULE Spec2Model ----
(***************************************************************************)
(* Model of src/App.jsx: the DMN upload handler (handleFileUpload and its  *)
(* FileReader callback), the type lookup (findItemDefinition) and the      *)
(* example synthesis (generateExampleValue), together with the three       *)
(* pieces of React state of the App component.                             *)
(*                                                                         *)
(* Texts the code inspects (type names, typeRef texts, allowed-values      *)
(* text, file names) are sequences of one-character strings, so that       *)
(* toLowerCase, endsWith and the quoted-literal pattern are computed.      *)
(* Texts that are only used as keys (input names, field names) and error   *)
(* messages are plain strings.  The insertion order of object keys is not  *)
(* modelled: an object is a function from its key set to its values.       *)
(***************************************************************************)
EXTENDS Integers, Sequences, FiniteSets, TLC

VARIABLES jsonSchema, modalOpen, validationErrors, pending

vars == <<jsonSchema, modalOpen, validationErrors, pending>>

---------------------------------------------------------------------------
(* Bounds *)

\* FileReader instances that may be reading at the same time
MaxPending == 2
\* call depth of findItemDefinition/generateExampleValue at which the engine
\* raises RangeError (the JavaScript call-stack limit, scaled down)
MaxStack == 6

---------------------------------------------------------------------------
(* JavaScript values *)

\* undefined (an attribute or element the decoded tree does not have)
Absent == <<"<undefined>">>

Null == [tag |-> "null"]
JsNumber(n) == [tag |-> "number", num |-> n]
JsBoolean(b) == [tag |-> "boolean", bool |-> b]
JsString(cs) == [tag |-> "string", chars |-> cs]
JsObject(m) == [tag |-> "object", map |-> m]
\* an exception in flight, carrying error.message
Throw(msg) == [tag |-> "throw", message |-> msg]

IsThrow(v) == v.tag = "throw"

\* JavaScript truthiness of a text-or-undefined value
Truthy(t) == t # Absent /\ t # <<>>

\* a ?? b
Coalesce(a, b) == IF a = Absent THEN b ELSE a

\* a || b
OrElse(a, b) == IF Truthy(a) THEN a ELSE b

UpperChars == <<"A","B","C","D","E","F","G","H","I","J","K","L","M",
                "N","O","P","Q","R","S","T","U","V","W","X","Y","Z">>
LowerChars == <<"a","b","c","d","e","f","g","h","i","j","k","l","m",
                "n","o","p","q","r","s","t","u","v","w","x","y","z">>

LowerChar(c) ==
  IF \E i \in 1..Len(UpperChars) : UpperChars[i] = c
  THEN LowerChars[CHOOSE i \in 1..Len(UpperChars) : UpperChars[i] = c]
  ELSE c

\* String.prototype.toLowerCase
ToLowerCase(cs) == [i \in 1..Len(cs) |-> LowerChar(cs[i])]

\* String.prototype.endsWith
EndsWith(cs, suffix) ==
  /\ Len(cs) >= Len(suffix)
  /\ SubSeq(cs, Len(cs) - Len(suffix) + 1, Len(cs)) = suffix

sNumber == <<"n","u","m","b","e","r">>
sBoolean == <<"b","o","o","l","e","a","n">>
sString == <<"s","t","r","i","n","g">>
sExamplePrefix == <<"e","x","a","m","p","l","e","_">>
sDmnSuffix == <<".","d","m","n">>

Quote == "\""

---------------------------------------------------------------------------
(* The pattern /"([^"]+)"/g of generateExampleValue *)

\* index of the closing quote of a match that starts at i, 0 if none starts there
MatchEnd(text, i) ==
  IF /\ text[i] = Quote
     /\ i + 1 <= Len(text)
     /\ text[i + 1] # Quote
     /\ \E j \in (i + 2)..Len(text) : text[j] = Quote
  THEN CHOOSE j \in (i + 2)..Len(text) :
         /\ text[j] = Quote
         /\ \A k \in (i + 2)..(j - 1) : text[k] # Quote
  ELSE 0

RECURSIVE MatchAll(_, _)
\* text.match(/"([^"]+)"/g) searched from index from on: the matches, left to
\* right and not overlapping, each with its quotes (<<>> stands for null)
MatchAll(text, from) ==
  IF \E i \in from..Len(text) : MatchEnd(text, i) > 0
  THEN LET i == CHOOSE i \in from..Len(text) :
                  /\ MatchEnd(text, i) > 0
                  /\ \A k \in from..(i - 1) : MatchEnd(text, k) = 0
           j == MatchEnd(text, i)
       IN <<SubSeq(text, i, j)>> \o MatchAll(text, j + 1)
  ELSE <<>>

\* v.replace(/^"/, '').replace(/"$/, '')
StripQuotes(v) ==
  LET a == IF Len(v) > 0 /\ v[1] = Quote THEN Tail(v) ELSE v
  IN IF Len(a) > 0 /\ a[Len(a)] = Quote THEN SubSeq(a, 1, Len(a) - 1) ELSE a

\* def['dmn:allowedValues']?.[0]?._text?.match(...)?.map(strip): the list of
\* literals; <<>> stands for undefined (no text, or no match)
AllowedValuesOf(def) ==
  IF def.allowedValues.text = Absent THEN <<>>
  ELSE LET m == MatchAll(def.allowedValues.text, 1)
       IN [k \in 1..Len(m) |-> StripQuotes(m[k])]

---------------------------------------------------------------------------
(* findItemDefinition and generateExampleValue *)

JsArray(items) == [tag |-> "array", items |-> items]

sTypeErrorFind == "Cannot read properties of undefined (reading 'find')"
sTypeErrorTypeRef == "Cannot read properties of undefined (reading '_typeRef')"
sRangeError == "Maximum call stack size exceeded"
sInvalidStructure == "Invalid DMN file structure"

\* itemDefinitions.find(d => d._name === typeRef): the index of the first
\* definition of that name, 0 for undefined
FindIndex(items, typeRef) ==
  IF \E i \in 1..Len(items) : items[i].name = typeRef
  THEN CHOOSE i \in 1..Len(items) :
         /\ items[i].name = typeRef
         /\ \A k \in 1..(i - 1) : items[k].name # typeRef
  ELSE 0

\* the first exception among the values vs, in order
FirstThrow(vs) ==
  vs[CHOOSE i \in 1..Len(vs) :
       /\ IsThrow(vs[i])
       /\ \A k \in 1..(i - 1) : ~IsThrow(vs[k])]

\* the object a reduce builds by assigning vals[k] to key names[k] in order:
\* a later assignment to the same key replaces the earlier one
AssignAll(names, vals) ==
  [n \in {names[k] : k \in 1..Len(names)} |->
     vals[CHOOSE k \in 1..Len(names) :
            /\ names[k] = n
            /\ \A l \in (k + 1)..Len(names) : names[l] # n]]

RECURSIVE findItemDefinition(_, _, _)
\* itemDefinitions is [defined, items]; depth is the number of frames of the
\* two recursive functions on the call stack, this call included
findItemDefinition(itemDefinitions, typeRef, depth) ==
  IF depth > MaxStack THEN Throw(sRangeError)
  ELSE IF ~itemDefinitions.defined THEN Throw(sTypeErrorFind)
  ELSE
    LET i == FindIndex(itemDefinitions.items, typeRef) IN
    IF i = 0 THEN Null
    ELSE
      LET fields == itemDefinitions.items[i].itemComponent
          subs == [k \in 1..Len(fields) |->
                     IF Truthy(fields[k].typeRef)
                     THEN findItemDefinition(itemDefinitions, fields[k].typeRef, depth + 1)
                     ELSE Null]
      IN IF \E k \in 1..Len(fields) : IsThrow(subs[k])
         THEN FirstThrow(subs)
         ELSE JsArray([k \in 1..Len(fields) |->
                         [name |-> fields[k].name,
                          typeRef |-> fields[k].typeRef,
                          components |-> subs[k]]])

\* type === 'number' ? 0 : type === 'boolean' ? true : 'example_' + type.toLowerCase()
ExampleOfType(type) ==
  IF type = sNumber THEN JsNumber(0)
  ELSE IF type = sBoolean THEN JsBoolean(TRUE)
  ELSE JsString(sExamplePrefix \o ToLowerCase(type))

RECURSIVE generateExampleValue(_, _, _)
RECURSIVE ComponentValue(_, _, _)

\* the value the reduce callback of generateExampleValue assigns to
\* acc[component.name]; items is the list of type definitions
ComponentValue(component, items, depth) ==
  LET i == IF Truthy(component.typeRef) THEN FindIndex(items, component.typeRef) ELSE 0 IN
  IF i # 0 THEN
    LET def == items[i] IN
    IF Len(def.itemComponent) = 0 /\ def.allowedValues.present THEN
      LET allowedValues == AllowedValuesOf(def) IN
      IF Len(allowedValues) > 0 /\ allowedValues[1] # <<>>
      THEN JsString(allowedValues[1])
      ELSE JsString(ToLowerCase(Coalesce(def.typeRefAttr, sString)))
    ELSE IF Len(def.itemComponent) > 0 THEN
      LET comps == def.itemComponent
          subs == [k \in 1..Len(comps) |->
                     IF Truthy(comps[k].typeRef)
                     THEN findItemDefinition([defined |-> TRUE, items |-> items],
                                             comps[k].typeRef, depth + 1)
                     ELSE Null]
          vals == [k \in 1..Len(comps) |->
                     IF IsThrow(subs[k]) THEN subs[k]
                     ELSE generateExampleValue(
                            JsArray(<<[name |-> comps[k].name,
                                       typeRef |-> comps[k].typeRef,
                                       components |-> subs[k]]>>),
                            items, depth + 1)]
      IN IF \E k \in 1..Len(comps) : IsThrow(vals[k])
         THEN FirstThrow(vals)
         ELSE JsObject(AssignAll([k \in 1..Len(comps) |-> comps[k].name], vals))
    ELSE
      ExampleOfType(Coalesce(OrElse(def.typeRefElem, def.typeRefAttr), sString))
  ELSE
    IF Truthy(component.typeRef)
    THEN generateExampleValue(component.components, items, depth + 1)
    ELSE ExampleOfType(Coalesce(component.typeRef, sString))

\* components is null or an array of {name, typeRef, components}
generateExampleValue(components, items, depth) ==
  IF depth > MaxStack THEN Throw(sRangeError)
  ELSE IF components.tag = "null" THEN Null
  ELSE
    LET list == components.items
        vals == [k \in 1..Len(list) |-> ComponentValue(list[k], items, depth)]
    IN IF \E k \in 1..Len(list) : IsThrow(vals[k])
       THEN FirstThrow(vals)
       ELSE JsObject(AssignAll([k \in 1..Len(list) |-> list[k].name], vals))

---------------------------------------------------------------------------
(* Decoded documents: what parser.parse(content) may return *)

sPerson == <<"P","e","r","s","o","n">>
sAddress == <<"A","d","d","r","e","s","s">>
sGeo == <<"G","e","o">>
sStatus == <<"S","t","a","t","u","s">>
sFlag == <<"F","l","a","g">>
sNumberCap == <<"N","u","m","b","e","r">>
sNumberUp == <<"N","U","M","B","E","R">>
sBooleanCap == <<"B","o","o","l","e","a","n">>
sCurrency == <<"C","u","r","r","e","n","c","y">>

\* "Active" "Inactive"
sQuotedValues == <<Quote,"A","c","t","i","v","e",Quote," ",
                   Quote,"I","n","a","c","t","i","v","e",Quote>>
\* "" "Active": the first pair of quotes encloses nothing
sEmptyThenQuoted == <<Quote,Quote," ",Quote,"A","c","t","i","v","e",Quote>>
\* Active, Inactive
sUnquotedValues == <<"A","c","t","i","v","e",","," ","I","n","a","c","t","i","v","e">>

\* def['dmn:allowedValues'] is undefined
NoAllowedValues == [present |-> FALSE, text |-> Absent]
\* def['dmn:allowedValues'] is there and def['dmn:allowedValues']?.[0]?._text is t
AllowedValues(t) == [present |-> TRUE, text |-> t]

\* a dmn:itemComponent element: _name and its dmn:typeRef child
ItemComponent(name, typeRef) == [name |-> name, typeRef |-> typeRef]

\* a dmn:itemDefinition element: _name, _typeRef, its dmn:typeRef child, its
\* dmn:itemComponent children (none and an empty list read alike) and its
\* dmn:allowedValues
ItemDefinition(name, typeRefAttr, typeRefElem, itemComponent, allowedValues) ==
  [name |-> name, typeRefAttr |-> typeRefAttr, typeRefElem |-> typeRefElem,
   itemComponent |-> itemComponent, allowedValues |-> allowedValues]

\* a dmn:inputData element: _name, whether it has a dmn:variable child, and
\* that child's _typeRef
InputData(name, hasVariable, typeRef) ==
  [name |-> name, hasVariable |-> hasVariable, typeRef |-> typeRef]

BaseTypes == {Absent, sNumber, sNumberCap, sNumberUp, sBoolean, sBooleanCap, sCurrency}

AllowedValueTexts ==
  {NoAllowedValues, AllowedValues(Absent), AllowedValues(sQuotedValues),
   AllowedValues(sEmptyThenQuoted), AllowedValues(sUnquotedValues)}

\* the definitions of a type Status without fields
StatusDefinitions ==
  {ItemDefinition(sStatus, b, Absent, <<>>, a) : b \in BaseTypes, a \in AllowedValueTexts}

NumberDefinition == ItemDefinition(sNumberCap, sNumber, Absent, <<>>, NoAllowedValues)
\* its dmn:typeRef child and its _typeRef attribute disagree
FlagDefinition == ItemDefinition(sFlag, sNumber, sBoolean, <<>>, NoAllowedValues)

Defined(items) == [defined |-> TRUE, items |-> items]
\* definitions['dmn:itemDefinition'] is undefined
NoItemDefinitions == [defined |-> FALSE, items |-> <<>>]

PersonCatalog ==
  Defined(<<ItemDefinition(sPerson, Absent, Absent,
                           <<ItemComponent("name", Absent),
                             ItemComponent("age", sNumberCap)>>, NoAllowedValues),
            NumberDefinition>>)

NestedCatalogs ==
  {Defined(<<ItemDefinition(sPerson, Absent, Absent,
                            <<ItemComponent("name", Absent),
                              ItemComponent("status", sStatus),
                              ItemComponent("amount", sCurrency),
                              ItemComponent("count", sNumber),
                              ItemComponent("address", sAddress)>>, NoAllowedValues),
             ItemDefinition(sAddress, Absent, Absent,
                            <<ItemComponent("street", Absent),
                              ItemComponent("status", sStatus)>>, NoAllowedValues),
             st>>) : st \in StatusDefinitions}

DeepCatalog ==
  Defined(<<ItemDefinition(sPerson, Absent, Absent,
                           <<ItemComponent("address", sAddress),
                             ItemComponent("flag", sFlag),
                             ItemComponent("note", <<>>)>>, NoAllowedValues),
            ItemDefinition(sAddress, Absent, Absent,
                           <<ItemComponent("geo", sGeo),
                             ItemComponent("zip", sCurrency)>>, NoAllowedValues),
            ItemDefinition(sGeo, Absent, Absent,
                           <<ItemComponent("lat", sNumberCap),
                             ItemComponent("lat", Absent)>>, NoAllowedValues),
            NumberDefinition, FlagDefinition>>)

\* Person refers to itself
SelfCatalog ==
  Defined(<<ItemDefinition(sPerson, Absent, Absent,
                           <<ItemComponent("name", Absent),
                             ItemComponent("parent", sPerson)>>, NoAllowedValues),
            NumberDefinition>>)

\* Person and Address refer to each other
MutualCatalog ==
  Defined(<<ItemDefinition(sPerson, Absent, Absent,
                           <<ItemComponent("address", sAddress)>>, NoAllowedValues),
            ItemDefinition(sAddress, Absent, Absent,
                           <<ItemComponent("owner", sPerson)>>, NoAllowedValues),
            ItemDefinition(sStatus, sNumber, Absent, <<>>, NoAllowedValues)>>)

Catalogs ==
  {PersonCatalog, DeepCatalog, SelfCatalog, MutualCatalog, Defined(<<>>), NoItemDefinitions}
    \cup NestedCatalogs

InputLists ==
  {<<>>,
   <<InputData("Applicant", TRUE, sPerson)>>,
   <<InputData("Applicant", TRUE, sStatus)>>,
   <<InputData("Applicant", TRUE, sAddress)>>,
   <<InputData("Applicant", TRUE, sCurrency)>>,
   <<InputData("Applicant", TRUE, sNumber)>>,
   <<InputData("Applicant", TRUE, Absent)>>,
   <<InputData("Applicant", FALSE, Absent)>>,
   <<InputData("Applicant", TRUE, sPerson), InputData("Loan", TRUE, sStatus)>>,
   <<InputData("Applicant", TRUE, sStatus), InputData("Applicant", TRUE, sPerson)>>}

\* parsed['dmn:definitions'] is undefined
NoDefinitions ==
  [hasDefinitions |-> FALSE, inputData |-> <<>>, itemDefinition |-> NoItemDefinitions]

Documents ==
  {NoDefinitions} \cup
  {[hasDefinitions |-> TRUE, inputData |-> l, itemDefinition |-> c] :
     l \in InputLists, c \in Catalogs}

\* 'model.dmn', 'model.xml', 'model.DMN', 'dmn'
FileNames ==
  {<<"m","o","d","e","l",".","d","m","n">>,
   <<"m","o","d","e","l",".","x","m","l">>,
   <<"m","o","d","e","l",".","D","M","N">>,
   <<"d","m","n">>}

---------------------------------------------------------------------------
(* The App component *)

\* the try block of reader.onload from inputDataMap to schema, for a document
\* that has its definitions: the schema object, or the exception that leaves
\* the block
extractSchema(parsed) ==
  LET inputs == parsed.inputData
      itemDefinitions == parsed.itemDefinition
      names == [k \in 1..Len(inputs) |-> inputs[k].name]
      comps == [k \in 1..Len(inputs) |->
                  IF ~inputs[k].hasVariable THEN Throw(sTypeErrorTypeRef)
                  ELSE findItemDefinition(itemDefinitions, inputs[k].typeRef, 1)]
  IN IF \E k \in 1..Len(inputs) : IsThrow(comps[k]) THEN FirstThrow(comps)
     ELSE
       LET inputDataMap == AssignAll(names, comps)
           schema == [n \in DOMAIN inputDataMap |->
                        generateExampleValue(inputDataMap[n], itemDefinitions.items, 1)]
       IN IF \E n \in DOMAIN schema : IsThrow(schema[n])
          THEN schema[CHOOSE n \in DOMAIN schema : IsThrow(schema[n])]
          ELSE JsObject(schema)

\* Schema without the check of the definitions container: a document that
\* lacks it is read as one that declares nothing
SchemaUnchecked(parsed) == extractSchema(parsed)

\* the try block of reader.onload between parser.parse and setJsonSchema
Schema(parsed) ==
  IF ~parsed.hasDefinitions THEN Throw(sInvalidStructure)
  ELSE extractSchema(parsed)

\* Schema, tabulated over the documents
schemaOf == [parsed \in Documents |-> Schema(parsed)]

Init ==
  /\ jsonSchema = Null
  /\ modalOpen = FALSE
  /\ validationErrors = <<>>
  /\ pending = 0

\* handleFileUpload up to reader.readAsText(file); file is the name of
\* event.target.files[0], Absent when no file was chosen
handleFileUpload(file) ==
  IF file = Absent THEN UNCHANGED vars
  ELSE IF ~EndsWith(file, sDmnSuffix) THEN
    /\ validationErrors' =
         <<[message |-> "Invalid file type",
            details |-> "Please upload a valid DMN file with .dmn extension"]>>
    /\ UNCHANGED <<jsonSchema, modalOpen, pending>>
  ELSE
    /\ pending < MaxPending
    /\ pending' = pending + 1
    /\ UNCHANGED <<jsonSchema, modalOpen, validationErrors>>

\* readerOnload with setModalOpen(true) moved out of the try block: the modal
\* opens whether or not a schema was produced
readerOnloadOpeningAlways(parsed) ==
  /\ pending > 0
  /\ pending' = pending - 1
  /\ modalOpen' = TRUE
  /\ LET schema == schemaOf[parsed] IN
     IF IsThrow(schema) THEN
       /\ validationErrors' =
            <<[message |-> "Processing error", details |-> schema.message]>>
       /\ UNCHANGED jsonSchema
     ELSE
       /\ jsonSchema' = schema
       /\ validationErrors' = <<>>

\* reader.onload: the read of one file completes with content that decodes to parsed
readerOnload(parsed) ==
  /\ pending > 0
  /\ pending' = pending - 1
  /\ LET schema == schemaOf[parsed] IN
     IF IsThrow(schema) THEN
       /\ validationErrors' =
            <<[message |-> "Processing error", details |-> schema.message]>>
       /\ UNCHANGED <<jsonSchema, modalOpen>>
     ELSE
       /\ jsonSchema' = schema
       /\ modalOpen' = TRUE
       /\ validationErrors' = <<>>

\* the read fails: the reader has no onerror handler, nothing is set
readerOnerror ==
  /\ pending > 0
  /\ pending' = pending - 1
  /\ UNCHANGED <<jsonSchema, modalOpen, validationErrors>>

\* onClose of the Modal
modalOnClose ==
  /\ modalOpen
  /\ modalOpen' = FALSE
  /\ UNCHANGED <<jsonSchema, validationErrors, pending>>

Next ==
  \/ \E file \in FileNames \cup {Absent} : handleFileUpload(file)
  \/ \E parsed \in Documents : readerOnload(parsed)
  \/ readerOnerror
  \/ modalOnClose

Spec == Init /\ [][Next]_vars

---------------------------------------------------------------------------
(* Vocabulary of the properties *)

\* the definition a type reference names in the list items, if any
HasEntry(items, typeRef) == \E i \in 1..Len(items) : items[i].name = typeRef
EntryOf(items, typeRef) ==
  items[CHOOSE i \in 1..Len(items) :
          /\ items[i].name = typeRef
          /\ \A k \in 1..(i - 1) : items[k].name # typeRef]

IsCompositeType(items, typeRef) ==
  HasEntry(items, typeRef) /\ Len(EntryOf(items, typeRef).itemComponent) > 0
IsLeafType(items, typeRef) ==
  HasEntry(items, typeRef) /\ Len(EntryOf(items, typeRef).itemComponent) = 0

FieldNamesOf(def) == {def.itemComponent[k].name : k \in 1..Len(def.itemComponent)}
\* the typeRef of the last field of that name
FieldTypeOf(def, n) ==
  def.itemComponent[CHOOSE k \in 1..Len(def.itemComponent) :
                      /\ def.itemComponent[k].name = n
                      /\ \A l \in (k + 1)..Len(def.itemComponent) :
                           def.itemComponent[l].name # n].typeRef

\* the names of the declared inputs, and the typeRef of the last input of a name
InputNamesOf(d) == {d.inputData[k].name : k \in 1..Len(d.inputData)}
InputTypeOf(d, n) ==
  d.inputData[CHOOSE k \in 1..Len(d.inputData) :
                /\ d.inputData[k].name = n
                /\ \A l \in (k + 1)..Len(d.inputData) : d.inputData[l].name # n].typeRef

\* the types the fields of the type t refer to
FieldTypesOf(items, t) ==
  IF HasEntry(items, t)
  THEN {EntryOf(items, t).itemComponent[k].typeRef :
          k \in 1..Len(EntryOf(items, t).itemComponent)} \ {Absent, <<>>}
  ELSE {}

RECURSIVE ReachableFrom(_, _, _)
\* the types reached from the set S through at most n field references
ReachableFrom(items, S, n) ==
  IF n = 0 THEN S
  ELSE ReachableFrom(items, S \cup UNION {FieldTypesOf(items, t) : t \in S}, n - 1)

\* t refers to itself, directly or through a chain of other types
OnCycle(items, t) == t \in ReachableFrom(items, FieldTypesOf(items, t), Len(items))
\* resolving t meets a type that refers to itself
ReachesCycle(items, t) ==
  \E u \in ReachableFrom(items, {t}, Len(items)) : OnCycle(items, u)

\* every declared input has its variable child
WellFormedInputs(d) == \A k \in 1..Len(d.inputData) : d.inputData[k].hasVariable

\* the step is the completion of a read that decoded to d and produced an output
Produced(d) == readerOnload(d) /\ ~IsThrow(schemaOf[d])

\* the primitive classification rule of the specification, comparing as written
ClassifyExact(type) ==
  IF type = sNumber THEN JsNumber(0)
  ELSE IF type = sBoolean THEN JsBoolean(TRUE)
  ELSE JsString(sExamplePrefix \o ToLowerCase(type))

\* the same rule comparing case-insensitively
ClassifyAnyCase(type) ==
  IF ToLowerCase(type) = sNumber THEN JsNumber(0)
  ELSE IF ToLowerCase(type) = sBoolean THEN JsBoolean(TRUE)
  ELSE JsString(sExamplePrefix \o ToLowerCase(type))

\* the declared base type of a definition, "string" when it has none
BaseTypeOf(def) == Coalesce(OrElse(def.typeRefElem, def.typeRefAttr), sString)

\* text has a pair of quotes with at least one character and no quote between them
IsQuotedAt(text, i, j) ==
  /\ i + 1 < j
  /\ text[i] = Quote
  /\ text[j] = Quote
  /\ \A k \in (i + 1)..(j - 1) : text[k] # Quote
HasQuoted(text) ==
  \E i \in 1..Len(text) : \E j \in 1..Len(text) : IsQuotedAt(text, i, j)
\* the leftmost such substring, without its quotes
FirstQuoted(text) ==
  LET i == CHOOSE i \in 1..Len(text) :
             /\ \E j \in 1..Len(text) : IsQuotedAt(text, i, j)
             /\ \A k \in 1..(i - 1) : \A j \in 1..Len(text) : ~IsQuotedAt(text, k, j)
      j == CHOOSE j \in 1..Len(text) : IsQuotedAt(text, i, j)
  IN SubSeq(text, i + 1, j - 1)

\* the value the output holds for field n of the composite input named a
FieldValue(schema, a, n) == schema.map[a].map[n]

RECURSIVE MapsFieldsDirectly(_, _, _)
\* value is what the type typeRef asks for in shape: for a composite type a
\* mapping from exactly its field names, each field again so; otherwise no mapping
MapsFieldsDirectly(value, typeRef, items) ==
  IF IsCompositeType(items, typeRef)
  THEN /\ value.tag = "object"
       /\ DOMAIN value.map = FieldNamesOf(EntryOf(items, typeRef))
       /\ \A n \in FieldNamesOf(EntryOf(items, typeRef)) :
            MapsFieldsDirectly(value.map[n], FieldTypeOf(EntryOf(items, typeRef), n), items)
  ELSE value.tag # "object"

RECURSIVE KeySetsMatch(_, _, _)
\* at value and at every composite field below it, the keys are exactly the
\* declared field names of the type found there
KeySetsMatch(value, typeRef, items) ==
  IsCompositeType(items, typeRef) =>
    /\ value.tag = "object"
    /\ DOMAIN value.map = FieldNamesOf(EntryOf(items, typeRef))
    /\ \A n \in FieldNamesOf(EntryOf(items, typeRef)) :
         KeySetsMatch(value.map[n], FieldTypeOf(EntryOf(items, typeRef), n), items)

---------------------------------------------------------------------------
(* Properties *)

\* C1: whenever an output is produced, every input of a composite type maps to
\* a mapping in which each declared field name maps directly to the value of
\* the field's own type, at every depth: a scalar for a primitive field, the
\* mapping of the nested type's field names for a composite field, with no
\* extra level keyed by the field name.
C1_FieldsMapDirectly ==
  [][\A d \in Documents :
       Produced(d) =>
         \A a \in InputNamesOf(d) :
           IsCompositeType(d.itemDefinition.items, InputTypeOf(d, a)) =>
             MapsFieldsDirectly(jsonSchema'.map[a], InputTypeOf(d, a),
                                d.itemDefinition.items)]_vars

\* C2: whenever an output is produced, an input or a field whose typeRef has
\* no catalog entry gets the classification rule applied to the typeRef text
\* ("example_string" for an absent typeRef).
C2_UnresolvedIsClassified ==
  [][\A d \in Documents :
       Produced(d) =>
         LET items == d.itemDefinition.items IN
         \A a \in InputNamesOf(d) :
           /\ ~HasEntry(items, InputTypeOf(d, a)) =>
                jsonSchema'.map[a] = ClassifyExact(Coalesce(InputTypeOf(d, a), sString))
           /\ IsCompositeType(items, InputTypeOf(d, a)) =>
                \A n \in FieldNamesOf(EntryOf(items, InputTypeOf(d, a))) :
                  LET t == FieldTypeOf(EntryOf(items, InputTypeOf(d, a)), n) IN
                  ~HasEntry(items, t) =>
                    FieldValue(jsonSchema', a, n) = ClassifyExact(Coalesce(t, sString))]_vars

\* a definition without fields whose allowed-values text has a quoted substring
IsEnumerated(def) ==
  /\ Len(def.itemComponent) = 0
  /\ def.allowedValues.present
  /\ def.allowedValues.text # Absent
  /\ HasQuoted(def.allowedValues.text)

\* C3: whenever an output is produced, an input or a field whose type is a
\* definition without fields that has a quoted allowed value gets the first
\* quoted substring, quotes stripped.
C3_FirstAllowedValue ==
  [][\A d \in Documents :
       Produced(d) =>
         LET items == d.itemDefinition.items IN
         \A a \in InputNamesOf(d) :
           /\ (HasEntry(items, InputTypeOf(d, a)) /\ IsEnumerated(EntryOf(items, InputTypeOf(d, a)))) =>
                jsonSchema'.map[a] =
                  JsString(FirstQuoted(EntryOf(items, InputTypeOf(d, a)).allowedValues.text))
           /\ IsCompositeType(items, InputTypeOf(d, a)) =>
                \A n \in FieldNamesOf(EntryOf(items, InputTypeOf(d, a))) :
                  LET t == FieldTypeOf(EntryOf(items, InputTypeOf(d, a)), n) IN
                  (HasEntry(items, t) /\ IsEnumerated(EntryOf(items, t))) =>
                    FieldValue(jsonSchema', a, n) =
                      JsString(FirstQuoted(EntryOf(items, t).allowedValues.text))]_vars

\* C4: whenever an output is produced, a field whose type is a definition
\* without fields and without allowed values gets the value its base type
\* decides, compared case-insensitively.
C4_BaseTypeAnyCase ==
  [][\A d \in Documents :
       Produced(d) =>
         LET items == d.itemDefinition.items IN
         \A a \in InputNamesOf(d) :
           IsCompositeType(items, InputTypeOf(d, a)) =>
             \A n \in FieldNamesOf(EntryOf(items, InputTypeOf(d, a))) :
               LET t == FieldTypeOf(EntryOf(items, InputTypeOf(d, a)), n) IN
               (IsLeafType(items, t) /\ ~EntryOf(items, t).allowedValues.present) =>
                 FieldValue(jsonSchema', a, n) = ClassifyAnyCase(BaseTypeOf(EntryOf(items, t)))]_vars

\* C5: whenever an output is produced, at the mapping of every input of a
\* composite type and at every composite field below it, the key set is
\* exactly the set of field names the type at that place declares.
C5_KeySetsAreFieldSets ==
  [][\A d \in Documents :
       Produced(d) =>
         \A a \in InputNamesOf(d) :
           KeySetsMatch(jsonSchema'.map[a], InputTypeOf(d, a), d.itemDefinition.items)]_vars

\* C6: when a read completes with a document one of whose inputs has a type
\* that refers to itself, directly or through other types, processing ends
\* with an output that has a value for that input, and records no error.
C6_CyclesYieldPlaceholder ==
  [][\A d \in Documents :
       (/\ d.hasDefinitions
        /\ d.itemDefinition.defined
        /\ WellFormedInputs(d)
        /\ \E a \in InputNamesOf(d) : ReachesCycle(d.itemDefinition.items, InputTypeOf(d, a))
        /\ readerOnload(d)) =>
         /\ validationErrors' = <<>>
         /\ jsonSchema'.tag = "object"
         /\ DOMAIN jsonSchema'.map = InputNamesOf(d)]_vars

\* C7: when a read completes with a document that has the definitions
\* container and an input whose type has no catalog entry (the document may
\* have no type definitions at all), processing ends with an output mapping
\* and no 'Processing error' is recorded.
C7_UnknownTypeNeverRaises ==
  [][\A d \in Documents :
       (/\ d.hasDefinitions
        /\ WellFormedInputs(d)
        /\ \A a \in InputNamesOf(d) : ~ReachesCycle(d.itemDefinition.items, InputTypeOf(d, a))
        /\ \E a \in InputNamesOf(d) : ~HasEntry(d.itemDefinition.items, InputTypeOf(d, a))
        /\ readerOnload(d)) =>
         /\ \A k \in 1..Len(validationErrors') : validationErrors'[k].message # "Processing error"
         /\ jsonSchema'.tag = "object"]_vars

\* the documents that lack the definitions container
DocumentsWithoutDefinitions == {d \in Documents : ~d.hasDefinitions}

\* C8: when a read completes with a document that lacks the definitions
\* container, validationErrors becomes exactly one entry that carries the
\* text 'Invalid DMN file structure', and jsonSchema and modalOpen keep the
\* values they had.
C8_StructuralErrorIsTerminal ==
  [][\A d \in DocumentsWithoutDefinitions :
       readerOnload(d) =>
         /\ Len(validationErrors') = 1
         /\ validationErrors'[1].details = sInvalidStructure
         /\ jsonSchema' = jsonSchema
         /\ modalOpen' = modalOpen]_vars

\* a structural failure was recorded while an earlier schema stays on display
C8_Witness ==
  /\ validationErrors = <<[message |-> "Processing error", details |-> sInvalidStructure]>>
  /\ jsonSchema.tag = "object"
  /\ modalOpen

\* a definition without fields whose allowed-values text has no quoted substring
IsMalformedEnumeration(def) ==
  /\ Len(def.itemComponent) = 0
  /\ def.allowedValues.present
  /\ def.allowedValues.text # Absent
  /\ ~HasQuoted(def.allowedValues.text)

\* C9: whenever an output is produced, a field whose type is a definition
\* without fields whose allowed-values text has no quoted substring gets the
\* value the generic primitive rule gives for the definition's base type.
C9_NoLiteralFallsBack ==
  [][\A d \in Documents :
       Produced(d) =>
         LET items == d.itemDefinition.items IN
         \A a \in InputNamesOf(d) :
           IsCompositeType(items, InputTypeOf(d, a)) =>
             \A n \in FieldNamesOf(EntryOf(items, InputTypeOf(d, a))) :
               LET t == FieldTypeOf(EntryOf(items, InputTypeOf(d, a)), n) IN
               (HasEntry(items, t) /\ IsMalformedEnumeration(EntryOf(items, t))) =>
                 FieldValue(jsonSchema', a, n) = ClassifyExact(BaseTypeOf(EntryOf(items, t)))]_vars

\* C10: the modal is open only while a schema has been generated, and only
\* the completion of a read that produced a schema opens it.
C10_ModalNeedsSchema ==
  /\ [](modalOpen => jsonSchema.tag = "object")
  /\ [][(~modalOpen /\ modalOpen') =>
          (jsonSchema'.tag = "object" /\ validationErrors' = <<>>
             /\ pending' = pending - 1)]_vars

\* the modal is open on a schema while a later upload has been rejected
C10_Witness ==
  /\ modalOpen
  /\ jsonSchema.tag = "object"
  /\ Len(validationErrors) = 1
  /\ validationErrors[1].message = "Invalid file type"

====
